---- MODULE Spec2Model ----
(***************************************************************************)
(* RedDiss: the generate_diss pipeline (src/main.py) and its eight stages  *)
(* (src/agents/*.py), as a state machine.                                   *)
(*                                                                         *)
(* Requests are coroutines on one asyncio event loop.  A coroutine gives   *)
(* up the loop only where it awaits real I/O: the Reddit fetch, the two    *)
(* language-model completions and the beat download.  Everything else      *)
(* (the classifier, the `say`/`ffmpeg` subprocesses, librosa, soundfile)   *)
(* is a blocking call.  `running` is the request that holds the loop.      *)
(***************************************************************************)
EXTENDS Integers, Sequences, FiniteSets, TLC

\* ------------------------------------------------------------------ bounds
\* Number of generate_diss requests in flight on the event loop.
NumReq == 2

Req == 1..NumReq

\* ------------------------------------------------------- program constants
HTTP_OK == 200
HTTP_BAD_REQUEST == 400
HTTP_ERROR == 500
\* extract_themes classifies the top comments only: content["comments"][:5]
TopComments == 5

\* --------------------------------------------------------------- sequences
RECURSIVE SeqFilterOut(_, _)
\* s without the elements that are in `drop`
SeqFilterOut(s, drop) ==
    IF s = <<>> THEN <<>>
    ELSE IF Head(s) \in drop THEN SeqFilterOut(Tail(s), drop)
         ELSE <<Head(s)>> \o SeqFilterOut(Tail(s), drop)

Range(s) == {s[i] : i \in DOMAIN s}

Prefix(s, n) == IF Len(s) <= n THEN s ELSE SubSeq(s, 1, n)

\* ------------------------------------------------------------------- text
\* A string is a sequence of tokens; "" is <<>>.  PARA is "\n\n", NL is "\n".
PARA == "<nl><nl>"
NL == "<nl>"
SP == " "

\* str.strip(): whitespace tokens removed from both ends
Whitespace == {SP, NL, PARA}

RECURSIVE LStrip(_)
LStrip(t) == IF t # <<>> /\ Head(t) \in Whitespace THEN LStrip(Tail(t)) ELSE t

RECURSIVE RStrip(_)
RStrip(t) ==
    IF t # <<>> /\ t[Len(t)] \in Whitespace THEN RStrip(SubSeq(t, 1, Len(t) - 1)) ELSE t

Strip(t) == RStrip(LStrip(t))

\* index of the first occurrence of token x in t at or after position i; 0 if none
RECURSIVE IndexFrom(_, _, _)
IndexFrom(t, x, i) ==
    IF i > Len(t) THEN 0
    ELSE IF t[i] = x THEN i ELSE IndexFrom(t, x, i + 1)

\* str.split(sep): never empty, "".split(sep) = [""]
RECURSIVE Split(_, _)
Split(t, sep) ==
    LET k == IndexFrom(t, sep, 1) IN
    IF k = 0 THEN <<t>>
    ELSE <<SubSeq(t, 1, k - 1)>> \o Split(SubSeq(t, k + 1, Len(t)), sep)

\* sep.join(parts)
RECURSIVE Join(_, _)
Join(parts, sep) ==
    IF parts = <<>> THEN <<>>
    ELSE IF Len(parts) = 1 THEN parts[1]
         ELSE parts[1] \o <<sep>> \o Join(Tail(parts), sep)

\* ------------------------------------------------------------------ state
VARIABLES
    pc,         \* pc[r]: where request r's generate_diss coroutine stands
    running,    \* the request that holds the event loop, 0 when the loop is free
    st,         \* st[r][s]: stage s of request r is pending, running, returned or raised
    frame,      \* frame[r]: generate_diss's arguments and locals, and its callees' locals
    resp,       \* resp[r]: what generate_diss gave the HTTP client
    fs,         \* the fixed artifact paths under data/audio: who last wrote each
    tmp_files,  \* number of tempfile.NamedTemporaryFile(delete=False) files on disk
    inst,       \* inst[m]: the module-level singleton slot of stage module m is filled
    built,      \* built[m]: how many times module m's class was constructed
    call        \* a helper function called on its own: its name, arguments and result

vars == <<pc, running, st, frame, resp, fs, tmp_files, inst, built, call>>

\* the state of the web service
service == <<pc, running, st, frame, resp, fs, tmp_files, inst, built>>

Stages == <<"scrape", "clean", "themes", "lyrics", "refine", "tts", "sync", "master">>
StageSet == Range(Stages)

\* the modules that keep a lazily built global instance (scraper.py builds a
\* RedditScraper per call, sanitizer.py has no class)
Singletons == {"themes", "lyrics", "refine", "tts", "sync", "master"}

\* the modules whose stage is served by an instance of a class
Classes == Singletons \cup {"scrape"}

\* ------------------------------------------------------------- sanitizer
\* str.lower() on a token
Lower(tok) ==
    CASE tok = "Test" -> "test"
      [] tok = "Post" -> "post"
      [] tok = "URLs" -> "urls"
      [] tok = "A" -> "a"
      [] tok = "HTTP://T.CO" -> "http://t.co"
      [] tok = "Here" -> "here"
      [] tok = "Verse" -> "verse"
      [] tok = "Yo" -> "yo"
      [] tok = "TTS:" -> "tts:"
      [] tok = "Error" -> "error"
      [] tok = "Failed" -> "failed"
      [] tok = "Some" -> "some"
      [] OTHER -> tok

LowerText(t) == [i \in DOMAIN t |-> Lower(t[i])]

\* tokens at which the pattern http\S+|www\S+|https\S+ starts to match
UrlTokens == {"http://t.co", "www.t.co", "https://t.co", "http://example.com", "http://test.com"}
\* HTML entities matched by &(?:amp|lt|gt|#\d+|[a-zA-Z]+);
EntityTokens == {"&amp;", "&lt;", "&gt;", "&#39;"}
\* single characters that the class [^a-z0-9\s.,!?\x27\x22-] matches
SpecialTokens == {"[", "]", "(", ")", "<", ">", "*", "_", "~", "@", "#", "&", ";"}
Punctuation == {".", ",", "!", "?"}

\* re.sub(r'http\S+|www\S+|https\S+', '', text): the match runs from the URL's
\* start through every following non-whitespace character
RECURSIVE DropNonSpace(_)
DropNonSpace(t) ==
    IF t = <<>> \/ Head(t) \in Whitespace THEN t ELSE DropNonSpace(Tail(t))

RECURSIVE RemoveUrls(_)
RemoveUrls(t) ==
    IF t = <<>> THEN <<>>
    ELSE IF Head(t) \in UrlTokens THEN RemoveUrls(DropNonSpace(Tail(t)))
         ELSE <<Head(t)>> \o RemoveUrls(Tail(t))

\* position of the first `close` after position 1 that a non-greedy `.*?` can
\* reach: `.` does not match a newline; 0 when there is none
RECURSIVE CloseOnLine(_, _, _)
CloseOnLine(t, close, i) ==
    IF i > Len(t) THEN 0
    ELSE IF t[i] = close THEN i
         ELSE IF t[i] \in {NL, PARA} THEN 0
              ELSE CloseOnLine(t, close, i + 1)

\* re.sub(r'\[.*?\]|\(.*?\)', '', text): the brackets go with what they enclose
RECURSIVE RemoveBracketed(_)
RemoveBracketed(t) ==
    IF t = <<>> THEN <<>>
    ELSE LET close == IF Head(t) = "[" THEN "]" ELSE ")"
             k == IF Head(t) \in {"[", "("} THEN CloseOnLine(t, close, 2) ELSE 0
         IN IF k > 0 THEN RemoveBracketed(SubSeq(t, k + 1, Len(t)))
            ELSE <<Head(t)>> \o RemoveBracketed(Tail(t))

\* re.sub(r'&(?:amp|lt|gt|#\d+|[a-zA-Z]+);', ' ', text)
EntitiesToSpace(t) == [i \in DOMAIN t |-> IF t[i] \in EntityTokens THEN SP ELSE t[i]]

\* re.sub(r'\s+', ' ', text).strip()
RECURSIVE CollapseSpace(_)
CollapseSpace(t) ==
    IF t = <<>> THEN <<>>
    ELSE IF Head(t) \in Whitespace
         THEN <<SP>> \o CollapseSpace(LStrip(t))
         ELSE <<Head(t)>> \o CollapseSpace(Tail(t))

\* re.sub(r'([.,!?])\1+', r'\1', text)
RECURSIVE CollapsePunctuation(_)
CollapsePunctuation(t) ==
    IF Len(t) < 2 THEN t
    ELSE IF Head(t) \in Punctuation /\ t[2] = Head(t)
         THEN CollapsePunctuation(Tail(t))
         ELSE <<Head(t)>> \o CollapsePunctuation(Tail(t))

\* sanitizer._clean_string
CleanString(text) ==
    IF text = <<>> THEN <<>>
    ELSE LET lowered == LowerText(text)
             no_urls == RemoveUrls(lowered)
             no_marks == EntitiesToSpace(RemoveBracketed(no_urls))
             plain == SeqFilterOut(no_marks, SpecialTokens)
             spaced == Strip(CollapseSpace(plain))
         IN CollapsePunctuation(spaced)

\* KeepUpvoted with the test written `score >= 0`
RECURSIVE KeepNotDownvoted(_)
KeepNotDownvoted(comments) ==
    IF comments = <<>> THEN <<>>
    ELSE LET c == Head(comments) IN
         IF c.score >= 0
         THEN <<[text |-> CleanString(c.body), author |-> c.author, score |-> c.score]>>
              \o KeepNotDownvoted(Tail(comments))
         ELSE KeepNotDownvoted(Tail(comments))

\* list.append of the comments with score > 0, bodies cleaned
RECURSIVE KeepUpvoted(_)
KeepUpvoted(comments) ==
    IF comments = <<>> THEN <<>>
    ELSE LET c == Head(comments) IN
         IF c.score > 0
         THEN <<[text |-> CleanString(c.body), author |-> c.author, score |-> c.score]>>
              \o KeepUpvoted(Tail(comments))
         ELSE KeepUpvoted(Tail(comments))

\* sorted(..., key=score, reverse=True): stable, equal scores keep their order
RECURSIVE InsertByScore(_, _)
InsertByScore(c, sorted) ==
    IF sorted = <<>> THEN <<c>>
    ELSE IF Head(sorted).score >= c.score
         THEN <<Head(sorted)>> \o InsertByScore(c, Tail(sorted))
         ELSE <<c>> \o sorted

RECURSIVE SortByScore(_)
SortByScore(cs) ==
    IF cs = <<>> THEN <<>>
    ELSE InsertByScore(cs[Len(cs)], SortByScore(SubSeq(cs, 1, Len(cs) - 1)))

\* sanitizer.clean_text: the record it returns
CleanText(content) ==
    [title |-> CleanString(content.title),
     main_text |-> CleanString(content.selftext),
     author |-> content.author,
     subreddit |-> content.subreddit,
     comments |-> SortByScore(KeepUpvoted(content.comments))]

\* -------------------------------------------------------- theme extractor
\* _classify_text keeps the labels whose score is > 0.3; scores are in percent
ConfidenceFloor == 30

RECURSIVE KeepConfident(_)
KeepConfident(scored) ==
    IF scored = <<>> THEN <<>>
    ELSE IF Head(scored).confidence > ConfidenceFloor
         THEN <<Head(scored)>> \o KeepConfident(Tail(scored))
         ELSE KeepConfident(Tail(scored))

RECURSIVE InsertByConfidence(_, _)
InsertByConfidence(c, sorted) ==
    IF sorted = <<>> THEN <<c>>
    ELSE IF Head(sorted).confidence >= c.confidence
         THEN <<Head(sorted)>> \o InsertByConfidence(c, Tail(sorted))
         ELSE <<c>> \o sorted

RECURSIVE SortByConfidence(_)
SortByConfidence(cs) ==
    IF cs = <<>> THEN <<>>
    ELSE InsertByConfidence(cs[Len(cs)], SortByConfidence(SubSeq(cs, 1, Len(cs) - 1)))

\* whether _classify_text(text) reaches self.classifier(...)
CallsClassifier(text) == Strip(text) # <<>>

\* ThemeExtractor._classify_text, given what the classifier answers
ClassifyText(text, scored) ==
    IF ~CallsClassifier(text) THEN <<>> ELSE SortByConfidence(KeepConfident(scored))

\* f"{content['title']} {content['main_text']}"
MainContent(cleaned) == cleaned.title \o <<SP>> \o cleaned.main_text

\* the texts extract_themes classifies, in order: the main content, then the
\* top comments
ClassifiedTexts(cleaned) ==
    <<MainContent(cleaned)>>
    \o [i \in DOMAIN Prefix(cleaned.comments, TopComments) |-> cleaned.comments[i].text]

\* ThemeExtractor.extract_themes: themes_data
ThemesData(cleaned, scored) ==
    [main_themes |-> ClassifyText(MainContent(cleaned), scored),
     comment_themes |->
        [i \in DOMAIN Prefix(cleaned.comments, TopComments) |->
            [author |-> cleaned.comments[i].author,
             themes |-> ClassifyText(cleaned.comments[i].text, scored)]],
     target |-> cleaned.author,
     context |-> cleaned.subreddit]

\* ------------------------------------------------------- lyrics generator
SectionKeys == <<"verse1", "chorus", "verse2", "outro">>

\* LyricsGenerator._structure_lyrics: a dict, in insertion order
StructureLyrics(raw_lyrics) ==
    LET sections == Split(raw_lyrics, PARA) IN
    <<[section |-> "verse1", content |-> IF Len(sections) > 0 THEN sections[1] ELSE <<>>],
      [section |-> "chorus", content |-> IF Len(sections) > 1 THEN sections[2] ELSE <<>>],
      [section |-> "verse2", content |-> IF Len(sections) > 2 THEN sections[3] ELSE <<>>],
      [section |-> "outro",
       content |-> IF Len(sections) > 3 THEN sections[Len(sections)] ELSE <<>>]>>

\* LyricsGenerator._generate_verses: the completion's text, "" when acompletion raises
\* what an awaited acompletion(...) does: it raises, or it answers with a text
LLM_FAILS == [raises |-> TRUE, text |-> <<>>]
Answer(text) == [raises |-> FALSE, text |-> text]

GenerateVerses(completion) == IF completion.raises THEN <<>> ELSE completion.text

\* ----------------------------------------------------------- flow refiner
\* lines the model adds around its answer: line.lower().startswith((...))
DirectionWords ==
    {"here", "enhanced", "original", "verse", "chorus", "improved", "note", "adding"}
\* re.sub(r'[*_~`]', '', cleaned)
MarkdownTokens == {"*", "_", "~"}

\* response.split('\n'): a paragraph break is two line ends
RECURSIVE SplitLines(_)
SplitLines(t) ==
    LET a == IndexFrom(t, NL, 1)
        b == IndexFrom(t, PARA, 1)
        k == IF a = 0 THEN b ELSE IF b = 0 THEN a ELSE IF a < b THEN a ELSE b
    IN IF k = 0 THEN <<t>>
       ELSE IF t[k] = PARA
            THEN <<SubSeq(t, 1, k - 1), <<>>>> \o SplitLines(SubSeq(t, k + 1, Len(t)))
            ELSE <<SubSeq(t, 1, k - 1)>> \o SplitLines(SubSeq(t, k + 1, Len(t)))

\* [line.strip() for line in lines if line.strip()]
RECURSIVE StrippedLines(_)
StrippedLines(lines) ==
    IF lines = <<>> THEN <<>>
    ELSE IF Strip(Head(lines)) = <<>> THEN StrippedLines(Tail(lines))
         ELSE <<Strip(Head(lines))>> \o StrippedLines(Tail(lines))

RECURSIVE DropDirections(_)
DropDirections(lines) ==
    IF lines = <<>> THEN <<>>
    ELSE IF Lower(Head(lines)[1]) \in DirectionWords THEN DropDirections(Tail(lines))
         ELSE <<Head(lines)>> \o DropDirections(Tail(lines))

\* re.sub of a non-greedy open...close pattern; span_lines is FALSE for `.*?`,
\* which stops at a line end, and TRUE for `[^)]*`, which does not
RECURSIVE CloseAfter(_, _, _, _)
CloseAfter(t, close, i, span_lines) ==
    IF i > Len(t) THEN 0
    ELSE IF t[i] = close THEN i
         ELSE IF ~span_lines /\ t[i] \in {NL, PARA} THEN 0
              ELSE CloseAfter(t, close, i + 1, span_lines)

RECURSIVE RemoveTagged(_, _, _, _)
RemoveTagged(t, open, close, span_lines) ==
    IF t = <<>> THEN <<>>
    ELSE LET k == IF Head(t) = open THEN CloseAfter(t, close, 2, span_lines) ELSE 0 IN
         IF k > 0 THEN RemoveTagged(SubSeq(t, k + 1, Len(t)), open, close, span_lines)
         ELSE <<Head(t)>> \o RemoveTagged(Tail(t), open, close, span_lines)

\* FlowRefiner._clean_response
CleanResponse(response) ==
    LET filtered_lines == DropDirections(StrippedLines(SplitLines(response)))
        joined == Join(filtered_lines, NL)
        no_markdown == SeqFilterOut(joined, MarkdownTokens)
        no_square == RemoveTagged(no_markdown, "[", "]", FALSE)
        no_angle == RemoveTagged(no_square, "<", ">", FALSE)
        no_paren == RemoveTagged(no_angle, "(", ")", TRUE)
    IN Join(StrippedLines(SplitLines(no_paren)), NL)

\* FlowRefiner._enhance_section needs the model only for a non-empty section
AsksModel(content) == content # <<>>

\* EnhanceSection with an except block that returns "" like the lyrics generator
EnhanceSectionEmptyOnFailure(content, completion) ==
    IF ~AsksModel(content) THEN <<>>
    ELSE IF completion.raises THEN <<>>
         ELSE CleanResponse(Strip(completion.text))

\* FlowRefiner._enhance_section, given what acompletion does
EnhanceSection(content, completion) ==
    IF ~AsksModel(content) THEN <<>>
    ELSE IF completion.raises THEN content
         ELSE CleanResponse(Strip(completion.text))

\* ------------------------------------------------------------ exceptions
\* an exception: whether it is a fastapi.HTTPException (with its status code),
\* and str(e) as tokens
HttpError(status, msg) == [http |-> TRUE, status |-> status, msg |-> msg]
OtherError(msg) == [http |-> FALSE, status |-> 0, msg |-> msg]
NoError == [http |-> FALSE, status |-> 0, msg |-> <<>>]

\* the keywords of generate_diss's except block that are substrings of a
\* (lower-cased) token of an error text
KeywordsIn(tok) ==
    CASE tok = "data/processed/cleaned_mc_beat.json" -> {"beat"}
      [] tok = "data/themes/themes_mc_beat.json" -> {"theme", "beat"}
      [] tok = "data/lyrics/lyrics_mc_beat.json" -> {"lyrics", "beat"}
      [] tok = "data/refined/refined_lyrics.json" -> {"lyrics"}
      [] tok = "data/audio/raw_vocals.wav" -> {"audio"}
      [] tok = "audio:" -> {"audio"}
      [] tok = "tts:" -> {"tts"}
      [] tok = "reddit" -> {"reddit"}
      [] OTHER -> {}

\* `kw in error_lower`
Mentions(msg, kw) == \E i \in DOMAIN msg : kw \in KeywordsIn(Lower(msg[i]))

\* ErrorStep written with `if` in place of `elif`: the last matching test wins
ErrorStepLastMatch(msg) ==
    IF Mentions(msg, "master") \/ Mentions(msg, "audio") THEN "audio_mastering"
    ELSE IF Mentions(msg, "beat") \/ Mentions(msg, "sync") THEN "beat_syncing"
    ELSE IF Mentions(msg, "speech") \/ Mentions(msg, "tts") THEN "text_to_speech"
    ELSE IF Mentions(msg, "flow") THEN "flow_refinement"
    ELSE IF Mentions(msg, "lyrics") THEN "lyrics_generation"
    ELSE IF Mentions(msg, "theme") THEN "theme_extraction"
    ELSE IF Mentions(msg, "sanitizer") THEN "text_cleaning"
    ELSE IF Mentions(msg, "asyncpraw") \/ Mentions(msg, "reddit") THEN "reddit_scraping"
    ELSE "unknown"

\* generate_diss: the step its except block reports for str(e)
ErrorStep(msg) ==
    IF Mentions(msg, "asyncpraw") \/ Mentions(msg, "reddit") THEN "reddit_scraping"
    ELSE IF Mentions(msg, "sanitizer") THEN "text_cleaning"
    ELSE IF Mentions(msg, "theme") THEN "theme_extraction"
    ELSE IF Mentions(msg, "lyrics") THEN "lyrics_generation"
    ELSE IF Mentions(msg, "flow") THEN "flow_refinement"
    ELSE IF Mentions(msg, "speech") \/ Mentions(msg, "tts") THEN "text_to_speech"
    ELSE IF Mentions(msg, "beat") \/ Mentions(msg, "sync") THEN "beat_syncing"
    ELSE IF Mentions(msg, "master") \/ Mentions(msg, "audio") THEN "audio_mastering"
    ELSE "unknown"

\* str(e) of the failures the stages can meet
MsgMissingEnv == <<"missing", "required", "environment", "variables:", "REDDIT_CLIENT_ID">>
MsgInvalidUrl == <<"invalid", "reddit", "url", "provided">>
MsgRedditApi == <<"reddit", "api", "error:", "received", "403">>
MsgCleanSave == <<"permission", "denied:", "data/processed/cleaned_mc_beat.json">>
MsgModelLoad == <<"cannot", "load", "facebook/bart-large-mnli">>
MsgClassifier == <<"cuda", "out", "of", "memory">>
MsgThemesSave == <<"permission", "denied:", "data/themes/themes_mc_beat.json">>
MsgLyricsSave == <<"permission", "denied:", "data/lyrics/lyrics_mc_beat.json">>
MsgRefinedSave == <<"permission", "denied:", "data/refined/refined_lyrics.json">>
MsgTtsInit == <<"Error", "initializing", "TTS:", "ffmpeg", "not", "available">>
MsgSayFails == <<"command", "say", "returned", "non-zero", "exit", "status", "1">>
MsgFfmpegFails == <<"command", "ffmpeg", "returned", "non-zero", "exit", "status", "1">>
MsgReadFails == <<"Error", "opening", "tmpq3x.wav">>
MsgConcatenate == <<"need", "at", "least", "one", "array", "to", "concatenate">>
MsgVocalsSave == <<"Error", "opening", "data/audio/raw_vocals.wav">>

\* RuntimeError(f"Failed to generate audio: {str(e)}")
TtsError(inner) == OtherError(<<"Failed", "to", "generate", "audio:">> \o inner)

\* ----------------------------------------------------------------- inputs
\* beat_url: Optional[str] = None
NoneValue == "<None>"
BeatUrls == {NoneValue, "", "http://beats/b.mp3"}

\* Truthy written as `if beat_url is not None:`
TruthyIsNotNone(beat_url) == beat_url # NoneValue

\* `if beat_url:`
Truthy(beat_url) == beat_url \notin {NoneValue, ""}

\* what RedditScraper.extract_post_data can return
Posts ==
    {[title |-> <<"Yo", SP, "[", "x", "]">>, selftext |-> <<"a", "!", "!">>,
      author |-> "mc_beat", subreddit |-> "s",
      comments |-> <<[body |-> <<"http://t.co">>, author |-> "c1", score |-> 5],
                     [body |-> <<"b">>, author |-> "c2", score |-> 0],
                     [body |-> <<"c">>, author |-> "c3", score |-> 7]>>]}

\* what the zero-shot classifier answers: result["labels"], result["scores"]
ClassifierScores ==
    <<[theme |-> "wealth/money", confidence |-> 30],
      [theme |-> "past conflicts", confidence |-> 55],
      [theme |-> "skills/talent", confidence |-> 90]>>

\* what the language model answers to the lyrics prompt
LyricsAnswers == {<<"yo", NL, "yo", PARA, "hook">>}

\* what the language model answers to an enhancement prompt
RefineAnswers == {<<"Here", SP, "goes", NL, "*", "yo", "*", SP, "(", "pause", ")">>}

\* ------------------------------------------------------------------ files
RAW_VOCALS == "data/audio/raw_vocals.wav"
SYNCED_TRACK == "data/audio/synced_track.wav"
FINAL_TRACK == "data/audio/mastered/final_track.wav"
MASTERING_METADATA == "data/audio/mastered/mastering_metadata.json"
Paths == {RAW_VOCALS, SYNCED_TRACK, FINAL_TRACK, MASTERING_METADATA}

\* fs[p] = 0: no file at p; fs[p] = r: the file at p was derived from request
\* r's lyrics; fs[p] = Partial: opened for writing and left incomplete
Absent == 0
Partial == NumReq + 1

\* ----------------------------------------------------------------- frames
NoContent ==
    [title |-> <<>>, selftext |-> <<>>, author |-> "", subreddit |-> "", comments |-> <<>>]
NoCleaned ==
    [title |-> <<>>, main_text |-> <<>>, author |-> "", subreddit |-> "", comments |-> <<>>]
NoThemes == [main_themes |-> <<>>, comment_themes |-> <<>>, target |-> "", context |-> ""]

\* generate_diss's frame before its first statement, with the frames of the
\* stage calls it makes (their parameters, locals and return values)
EmptyFrame ==
    [beat_url |-> NoneValue,
     content |-> NoContent, cleaned_text |-> NoCleaned, themes |-> NoThemes,
     lyrics |-> <<>>, refined_lyrics |-> <<>>,
     speech_file |-> "", synced_audio |-> "", final_track |-> "",
     \* parameters received by the stages
     par_clean |-> NoContent, par_themes |-> NoCleaned, par_lyrics |-> NoThemes,
     par_refine |-> <<>>, par_tts |-> <<>>, par_sync |-> "", par_master |-> "",
     \* values returned by the stages that return a path
     ret_tts |-> "", ret_sync |-> "", ret_master |-> "",
     \* the exception in flight
     exc |-> NoError,
     \* what went wrong outside the program during this request
     faults |-> {},
     \* FlowRefiner.refine_flow: refined_lyrics so far, sections sent to the model
     \* and sections whose call raised
     refined |-> <<>>, asked |-> {}, failed |-> {},
     \* TTSEngine.text_to_speech: sections looped over, len(audio_sections),
     \* temporary files created and still on disk
     tts_idx |-> 0, audio_sections |-> 0, tmp_made |-> {}, tmp_live |-> {},
     \* BeatSynchronizer.sync_to_beat: whose vocals librosa.load read
     \* and the sub-step that raised ("" while none has)
     vocals |-> Absent, sync_failed_at |-> "",
     \* AudioMaster.master_audio: whose audio sf.read read, paths written in order
     \* and the sub-step that raised
     audio |-> Absent, writes |-> <<>>, master_failed_at |-> ""]

\* no helper function is being called on its own
NoCall == [fn |-> "", args |-> <<>>, result |-> <<>>, done |-> FALSE]

NoResponse ==
    [status |-> "none", code |-> 0, step |-> "", detail |-> <<>>,
     audio_file |-> "", audio_of |-> Absent]

\* the service before any request
NoRequests ==
    /\ pc = [r \in Req |-> "idle"]
    /\ running = 0
    /\ st = [r \in Req |-> [s \in StageSet |-> "pending"]]
    /\ frame = [r \in Req |-> EmptyFrame]
    /\ resp = [r \in Req |-> NoResponse]
    /\ fs = [p \in Paths |-> Absent]
    /\ tmp_files = 0
    /\ inst = [m \in Singletons |-> FALSE]
    /\ built = [m \in Classes |-> 0]

Init == NoRequests /\ call = NoCall

\* request r may take a step: the loop is free, or r holds it
MayRun(r) == running \in {0, r}

\* After with the sanitizer stage left out: the raw scrape goes to the classifier
AfterWithoutCleaning(s) ==
    CASE s = "scrape" -> "themes"
      [] s = "clean" -> "themes"
      [] s = "themes" -> "lyrics"
      [] s = "lyrics" -> "refine"
      [] s = "refine" -> "tts"
      [] s = "tts" -> "sync"
      [] s = "sync" -> "master"
      [] s = "master" -> "return"

\* generate_diss: the statement that follows `await <stage s>(...)`
After(s) ==
    CASE s = "scrape" -> "clean"
      [] s = "clean" -> "themes"
      [] s = "themes" -> "lyrics"
      [] s = "lyrics" -> "refine"
      [] s = "refine" -> "tts"
      [] s = "tts" -> "sync"
      [] s = "sync" -> "master"
      [] s = "master" -> "return"

\* YieldsOnReturn if every `await` handed control to the event loop
YieldsOnEveryAwait(s) == TRUE

\* `x = await stage(...)`: when the awaited coroutine finishes, the caller goes
\* on at once; the event loop gets control only where a coroutine awaits I/O
YieldsOnReturn(s) == FALSE

\* stage s returns to generate_diss
Return(r, s) ==
    /\ st' = [st EXCEPT ![r][s] = "returned"]
    /\ pc' = [pc EXCEPT ![r] = After(s)]
    /\ running' = IF YieldsOnReturn(s) THEN 0 ELSE r

\* stage s raises into generate_diss's try block
Raise(r, s) ==
    /\ st' = [st EXCEPT ![r][s] = "raised"]
    /\ pc' = [pc EXCEPT ![r] = "except"]
    /\ running' = r

\* GetInstance without the `is None` test: every call builds an instance
GetInstanceAlwaysBuilds(m, ctor_ok) ==
    IF ctor_ok
    THEN /\ inst' = [inst EXCEPT ![m] = TRUE]
         /\ built' = [built EXCEPT ![m] = @ + 1]
    ELSE UNCHANGED <<inst, built>>

\* the module-level accessor of stage module m: build the instance if the slot
\* is empty; a constructor that raises leaves the slot empty
GetInstance(m, ctor_ok) ==
    IF inst[m] THEN UNCHANGED <<inst, built>>
    ELSE IF ctor_ok
         THEN /\ inst' = [inst EXCEPT ![m] = TRUE]
              /\ built' = [built EXCEPT ![m] = @ + 1]
         ELSE UNCHANGED <<inst, built>>

\* frame[r] with the exception e in flight, caused by the outside fault
Raising(r, e, fault) ==
    [frame EXCEPT ![r].exc = e, ![r].faults = @ \cup {fault}]

\* ------------------------------------------------------- stage 1: scraper
\* main.py generate_diss is entered and calls scraper.scrape_reddit(url), which
\* builds a RedditScraper of its own at every call: RedditScraper() raises
\* HTTPException(500) when the credentials are missing, otherwise the
\* coroutine awaits Reddit
generate_diss(r) ==
    /\ pc[r] = "idle"
    /\ MayRun(r)
    /\ \E beat_url \in BeatUrls, env_ok \in BOOLEAN :
          IF env_ok
          THEN /\ frame' = [frame EXCEPT ![r].beat_url = beat_url]
               /\ built' = [built EXCEPT !["scrape"] = @ + 1]
               /\ st' = [st EXCEPT ![r]["scrape"] = "running"]
               /\ pc' = [pc EXCEPT ![r] = "scrape_wait"]
               /\ running' = 0
          ELSE /\ frame' = [Raising(r, HttpError(HTTP_ERROR, MsgMissingEnv), "env")
                               EXCEPT ![r].beat_url = beat_url]
               /\ Raise(r, "scrape")
               /\ UNCHANGED built
    /\ UNCHANGED <<resp, fs, tmp_files, inst, call>>

\* RedditScraper.extract_post_data resumes: the post, or an HTTPException
scrape_reddit_done(r) ==
    /\ pc[r] = "scrape_wait"
    /\ MayRun(r)
    /\ \/ \E post \in Posts :
             /\ frame' = [frame EXCEPT ![r].content = post]
             /\ Return(r, "scrape")
       \/ \E e \in {HttpError(HTTP_BAD_REQUEST, MsgInvalidUrl),
                    HttpError(HTTP_ERROR, MsgRedditApi)} :
             /\ frame' = Raising(r, e, "reddit")
             /\ Raise(r, "scrape")
    /\ UNCHANGED <<resp, fs, tmp_files, inst, built, call>>

\* ----------------------------------------------------- stage 2: sanitizer
\* sanitizer.clean_text(content): no await inside; writing the cleaned record
\* to data/processed can fail
clean_text(r) ==
    /\ pc[r] = "clean"
    /\ MayRun(r)
    /\ \E save_ok \in BOOLEAN :
          LET f == [frame EXCEPT ![r].par_clean = frame[r].content] IN
          IF save_ok
          THEN /\ frame' = [f EXCEPT ![r].cleaned_text = CleanText(f[r].par_clean)]
               /\ Return(r, "clean")
          ELSE /\ frame' = [f EXCEPT ![r].exc = OtherError(MsgCleanSave),
                                     ![r].faults = @ \cup {"disk"}]
               /\ Raise(r, "clean")
    /\ UNCHANGED <<resp, fs, tmp_files, inst, built, call>>

\* ----------------------------------------------- stage 3: theme extractor
\* theme_extractor.extract_themes(cleaned_text): the accessor builds the
\* ThemeExtractor on first use (loading the classifier can fail), then
\* _classify_text calls the classifier, with no try around the call
extract_themes(r) ==
    /\ pc[r] = "themes"
    /\ MayRun(r)
    /\ \E ctor_ok \in BOOLEAN, outcome \in {"ok", "classifier_fails", "save_fails"} :
          LET f == [frame EXCEPT ![r].par_themes = frame[r].cleaned_text]
              texts == ClassifiedTexts(f[r].par_themes)
          IN
          /\ GetInstance("themes", ctor_ok)
          /\ outcome = "classifier_fails" => \E i \in DOMAIN texts : CallsClassifier(texts[i])
          /\ IF ~inst["themes"] /\ ~ctor_ok
             THEN /\ frame' = [f EXCEPT ![r].exc = OtherError(MsgModelLoad),
                                        ![r].faults = @ \cup {"classifier"}]
                  /\ Raise(r, "themes")
             ELSE IF outcome = "classifier_fails"
             THEN /\ frame' = [f EXCEPT ![r].exc = OtherError(MsgClassifier),
                                        ![r].faults = @ \cup {"classifier"}]
                  /\ Raise(r, "themes")
             ELSE IF outcome = "save_fails"
             THEN /\ frame' = [f EXCEPT ![r].exc = OtherError(MsgThemesSave),
                                        ![r].faults = @ \cup {"disk"}]
                  /\ Raise(r, "themes")
             ELSE /\ frame' = [f EXCEPT ![r].themes =
                                  ThemesData(f[r].par_themes, ClassifierScores)]
                  /\ Return(r, "themes")
    /\ UNCHANGED <<resp, fs, tmp_files, call>>

\* ----------------------------------------------- stage 4: lyrics generator
\* lyrics_generator.generate_lyrics(themes, style) up to its await of acompletion
generate_lyrics_call(r) ==
    /\ pc[r] = "lyrics"
    /\ MayRun(r)
    /\ GetInstance("lyrics", TRUE)
    /\ frame' = [frame EXCEPT ![r].par_lyrics = frame[r].themes]
    /\ st' = [st EXCEPT ![r]["lyrics"] = "running"]
    /\ pc' = [pc EXCEPT ![r] = "lyrics_wait"]
    /\ running' = 0
    /\ UNCHANGED <<resp, fs, tmp_files, call>>

\* acompletion resumes _generate_verses (its except returns ""), then
\* _structure_lyrics, then the lyrics file is written
generate_lyrics_done(r) ==
    /\ pc[r] = "lyrics_wait"
    /\ MayRun(r)
    /\ \E completion \in {LLM_FAILS} \cup {Answer(a) : a \in LyricsAnswers},
          save_ok \in BOOLEAN :
          LET structured_lyrics == StructureLyrics(GenerateVerses(completion))
              f == [frame EXCEPT ![r].faults =
                       IF completion.raises THEN @ \cup {"lyrics_model"} ELSE @]
          IN
          IF save_ok
          THEN /\ frame' = [f EXCEPT ![r].lyrics = structured_lyrics]
               /\ Return(r, "lyrics")
          ELSE /\ frame' = [f EXCEPT ![r].exc = OtherError(MsgLyricsSave),
                                     ![r].faults = @ \cup {"disk"}]
               /\ Raise(r, "lyrics")
    /\ UNCHANGED <<resp, fs, tmp_files, inst, built, call>>

\* -------------------------------------------------- stage 5: flow refiner
\* flow_refiner.refine_flow(lyrics, flow_complexity) is called: refined_lyrics = {}
refine_flow_call(r) ==
    /\ pc[r] = "refine"
    /\ MayRun(r)
    /\ GetInstance("refine", TRUE)
    /\ frame' = [frame EXCEPT ![r].par_refine = frame[r].lyrics,
                              ![r].refined = <<>>, ![r].asked = {}, ![r].failed = {}]
    /\ st' = [st EXCEPT ![r]["refine"] = "running"]
    /\ pc' = [pc EXCEPT ![r] = "refine_loop"]
    /\ running' = r
    /\ UNCHANGED <<resp, fs, tmp_files, call>>

\* one turn of `for section, content in lyrics.items()`: an empty section is
\* answered at once, otherwise _enhance_section awaits acompletion; after the
\* last section the refined lyrics are written and returned
refine_flow_step(r) ==
    /\ pc[r] = "refine_loop"
    /\ MayRun(r)
    /\ LET lyrics == frame[r].par_refine
           i == Len(frame[r].refined) + 1
       IN
       IF i <= Len(lyrics)
       THEN IF AsksModel(lyrics[i].content)
            THEN /\ frame' = [frame EXCEPT ![r].asked = @ \cup {lyrics[i].section}]
                 /\ pc' = [pc EXCEPT ![r] = "refine_wait"]
                 /\ running' = 0
                 /\ UNCHANGED st
            ELSE /\ frame' = [frame EXCEPT ![r].refined =
                                 Append(@, [section |-> lyrics[i].section,
                                            content |-> EnhanceSection(lyrics[i].content,
                                                                       LLM_FAILS)])]
                 /\ running' = r
                 /\ UNCHANGED <<pc, st>>
       ELSE \E save_ok \in BOOLEAN :
               IF save_ok
               THEN /\ frame' = [frame EXCEPT ![r].refined_lyrics = frame[r].refined]
                    /\ Return(r, "refine")
               ELSE /\ frame' = Raising(r, OtherError(MsgRefinedSave), "disk")
                    /\ Raise(r, "refine")
    /\ UNCHANGED <<resp, fs, tmp_files, inst, built, call>>

\* acompletion resumes _enhance_section: the cleaned answer, or the section
\* as it was when the call raised
refine_flow_resume(r) ==
    /\ pc[r] = "refine_wait"
    /\ MayRun(r)
    /\ \E completion \in {LLM_FAILS} \cup {Answer(a) : a \in RefineAnswers} :
          LET lyrics == frame[r].par_refine
              i == Len(frame[r].refined) + 1
          IN
          frame' = [frame EXCEPT
                       ![r].refined =
                           Append(@, [section |-> lyrics[i].section,
                                      content |-> EnhanceSection(lyrics[i].content,
                                                                 completion)]),
                       ![r].failed =
                           IF completion.raises THEN @ \cup {lyrics[i].section} ELSE @]
    /\ pc' = [pc EXCEPT ![r] = "refine_loop"]
    /\ running' = r
    /\ UNCHANGED <<st, resp, fs, tmp_files, inst, built, call>>

\* ---------------------------------------------------- stage 6: TTS engine
\* the temporary files one section's synthesis creates: the .aiff and the .txt
\* before `say` runs, the .wav once `say` has succeeded
TmpCreated(section, outcome) ==
    {<<section, "aiff">>, <<section, "txt">>}
    \cup (IF outcome = "say_fails" THEN {} ELSE {<<section, "wav">>})

\* the ones it unlinks: the .wav after the audio was read and normalised, the
\* .txt and the .aiff in the finally block
TmpUnlinked(section, outcome) ==
    {<<section, "txt">>, <<section, "aiff">>}
    \cup (IF outcome = "ok" THEN {<<section, "wav">>} ELSE {})

\* str(e) of what stopped a section
SectionError(outcome) ==
    CASE outcome = "say_fails" -> MsgSayFails
      [] outcome = "ffmpeg_fails" -> MsgFfmpegFails
      [] outcome = "read_fails" -> MsgReadFails

\* tts_engine.text_to_speech(refined_lyrics): the accessor builds the TTSEngine
\* on first use (it raises when `say` or `ffmpeg` is missing), then the method
\* starts with audio_sections = []
text_to_speech_call(r) ==
    /\ pc[r] = "tts"
    /\ MayRun(r)
    /\ \E ctor_ok \in BOOLEAN :
          /\ GetInstance("tts", ctor_ok)
          /\ IF ~inst["tts"] /\ ~ctor_ok
             THEN /\ frame' = [frame EXCEPT ![r].par_tts = frame[r].refined_lyrics,
                                            ![r].exc = OtherError(MsgTtsInit),
                                            ![r].faults = @ \cup {"tts_tools"}]
                  /\ Raise(r, "tts")
             ELSE /\ frame' = [frame EXCEPT ![r].par_tts = frame[r].refined_lyrics,
                                            ![r].tts_idx = 0, ![r].audio_sections = 0,
                                            ![r].tmp_made = {}, ![r].tmp_live = {}]
                  /\ st' = [st EXCEPT ![r]["tts"] = "running"]
                  /\ pc' = [pc EXCEPT ![r] = "tts_loop"]
                  /\ running' = r
    /\ UNCHANGED <<resp, fs, tmp_files, call>>

\* one turn of `for section, content in lyrics.items()`: an empty section is
\* passed over; otherwise say, ffmpeg, sf.read and the normalisation run, each
\* of which can raise, and the audio and a pause are appended
text_to_speech_section(r) ==
    /\ pc[r] = "tts_loop"
    /\ MayRun(r)
    /\ frame[r].tts_idx < Len(frame[r].par_tts)
    /\ LET i == frame[r].tts_idx + 1
           section == frame[r].par_tts[i].section
           content == frame[r].par_tts[i].content
       IN
       IF content = <<>>
       THEN /\ frame' = [frame EXCEPT ![r].tts_idx = i]
            /\ running' = r
            /\ UNCHANGED <<pc, st, tmp_files>>
       ELSE \E outcome \in {"ok", "say_fails", "ffmpeg_fails", "read_fails"} :
               LET made == TmpCreated(section, outcome)
                   left == made \ TmpUnlinked(section, outcome)
                   f == [frame EXCEPT ![r].tts_idx = i,
                                      ![r].tmp_made = @ \cup made,
                                      ![r].tmp_live = @ \cup left]
               IN
               /\ tmp_files' = tmp_files + Cardinality(left)
               /\ IF outcome = "ok"
                  THEN /\ frame' = [f EXCEPT ![r].audio_sections = @ + 2]
                       /\ running' = r
                       /\ UNCHANGED <<pc, st>>
                  ELSE /\ frame' = [f EXCEPT ![r].exc = TtsError(SectionError(outcome)),
                                             ![r].faults = @ \cup {outcome}]
                       /\ Raise(r, "tts")
    /\ UNCHANGED <<resp, fs, inst, built, call>>

\* after the loop: np.concatenate(audio_sections) raises on an empty list;
\* then raw_vocals.wav and vocals_metadata.json are written
text_to_speech_finish(r) ==
    /\ pc[r] = "tts_loop"
    /\ MayRun(r)
    /\ frame[r].tts_idx = Len(frame[r].par_tts)
    /\ IF frame[r].audio_sections = 0
       THEN /\ frame' = [frame EXCEPT ![r].exc = TtsError(MsgConcatenate)]
            /\ Raise(r, "tts")
            /\ UNCHANGED fs
       ELSE \E outcome \in {"ok", "write_fails", "metadata_fails"} :
               /\ fs' = IF outcome = "write_fails" THEN fs
                        ELSE [fs EXCEPT ![RAW_VOCALS] = r]
               /\ IF outcome = "ok"
                  THEN /\ frame' = [frame EXCEPT ![r].ret_tts = RAW_VOCALS,
                                                 ![r].speech_file = RAW_VOCALS]
                       /\ Return(r, "tts")
                  ELSE /\ frame' = Raising(r, TtsError(MsgVocalsSave), "disk")
                       /\ Raise(r, "tts")
    /\ UNCHANGED <<resp, tmp_files, inst, built, call>>

\* ----------------------------------------------- stage 7: beat synchronizer
BeatStatuses == {HTTP_OK, 404, 503}

\* _download_beat: `if response.status == 200`
DownloadOk(status) == status = HTTP_OK

\* the sub-steps of sync_to_beat after the download, in order
SyncSteps ==
    <<"load_beat", "beat_track", "time_stretch", "align_to_grid", "mix_audio",
      "write_track", "write_metadata">>

\* whether sf.write(output_path, mixed_audio, beat_sr) was reached and succeeded
SyncWritesTrack(failed_at) == failed_at \in {"none", "write_metadata"}

\* SyncResult with an except block that returns output_path
SyncResultAlwaysOutput(vocals_path, failed_at) == SYNCED_TRACK

\* what sync_to_beat returns: output_path, or vocals_path from its except
SyncResult(vocals_path, failed_at) ==
    IF failed_at = "none" THEN SYNCED_TRACK ELSE vocals_path

\* step 7 of generate_diss without a beat: synced_audio = speech_file
skip_sync(r) ==
    /\ pc[r] = "sync"
    /\ MayRun(r)
    /\ ~Truthy(frame[r].beat_url)
    /\ frame' = [frame EXCEPT ![r].synced_audio = frame[r].speech_file]
    /\ pc' = [pc EXCEPT ![r] = After("sync")]
    /\ running' = r
    /\ UNCHANGED <<st, resp, fs, tmp_files, inst, built, call>>

\* beat_sync.sync_to_beat(speech_file, beat_url): librosa.load(vocals_path),
\* then _download_beat awaits the HTTP response
sync_to_beat_call(r) ==
    /\ pc[r] = "sync"
    /\ MayRun(r)
    /\ Truthy(frame[r].beat_url)
    /\ GetInstance("sync", TRUE)
    /\ \E load_ok \in BOOLEAN :
          LET f == [frame EXCEPT ![r].par_sync = frame[r].speech_file] IN
          IF load_ok
          THEN /\ frame' = [f EXCEPT ![r].vocals = fs[f[r].par_sync]]
               /\ st' = [st EXCEPT ![r]["sync"] = "running"]
               /\ pc' = [pc EXCEPT ![r] = "sync_wait"]
               /\ running' = 0
          ELSE LET path == SyncResult(f[r].par_sync, "load_vocals") IN
               /\ frame' = [f EXCEPT ![r].ret_sync = path, ![r].synced_audio = path,
                                     ![r].sync_failed_at = "load_vocals"]
               /\ Return(r, "sync")
    /\ UNCHANGED <<resp, fs, tmp_files, call>>

\* the HTTP response arrives: a status other than 200 raises inside
\* _download_beat; on 200 the body goes to a NamedTemporaryFile(delete=False),
\* which nothing unlinks; then the beat is decoded and the vocals are
\* stretched, aligned, mixed and written.  Any exception ends in the except
\* block of sync_to_beat
sync_to_beat_resume(r) ==
    /\ pc[r] = "sync_wait"
    /\ MayRun(r)
    /\ \E status \in BeatStatuses, later \in Range(SyncSteps) \cup {"none"} :
          LET failed_at == IF DownloadOk(status) THEN later ELSE "download"
              path == SyncResult(frame[r].par_sync, failed_at)
          IN
          /\ DownloadOk(status) \/ later = "none"
          /\ tmp_files' = IF DownloadOk(status) THEN tmp_files + 1 ELSE tmp_files
          /\ fs' = IF SyncWritesTrack(failed_at)
                   THEN [fs EXCEPT ![SYNCED_TRACK] = frame[r].vocals]
                   ELSE fs
          /\ frame' = [frame EXCEPT ![r].ret_sync = path, ![r].synced_audio = path,
                                    ![r].sync_failed_at = failed_at]
          /\ Return(r, "sync")
    /\ UNCHANGED <<resp, inst, built, call>>

\* --------------------------------------------------- stage 8: audio master
\* the sub-steps of master_audio, in order
MasterSteps ==
    <<"read", "compression", "eq", "stereo", "limiting", "open_audio", "write_audio",
      "metrics", "open_metadata", "dump_metadata">>

\* position of a sub-step; "none" (nothing failed) comes after them all
StepIndex(steps, step) ==
    IF step \in Range(steps) THEN CHOOSE i \in DOMAIN steps : steps[i] = step
    ELSE Len(steps) + 1

\* sub-step `step` ran to its end in a call that failed at `failed_at`
Completed(steps, step, failed_at) ==
    StepIndex(steps, step) < StepIndex(steps, failed_at)

\* MasterResult with the metadata written outside the try: a failure after the
\* audio file was written still returns output_path
MasterResultOnceWritten(audio_path, failed_at) ==
    IF failed_at \in {"none", "metrics", "open_metadata", "dump_metadata"}
    THEN FINAL_TRACK ELSE audio_path

\* what master_audio returns: output_path, or audio_path from either except
MasterResult(audio_path, failed_at) ==
    IF failed_at = "none" THEN FINAL_TRACK ELSE audio_path

\* the files master_audio has written to, in order, when it returns; a write
\* that raised after open(..., "w") leaves the file incomplete
MasterWrites(failed_at) ==
    (IF Completed(MasterSteps, "open_audio", failed_at) THEN <<FINAL_TRACK>> ELSE <<>>)
    \o (IF Completed(MasterSteps, "open_metadata", failed_at)
        THEN <<MASTERING_METADATA>> ELSE <<>>)

\* mastering.master_audio(synced_audio): no await inside
master_audio(r) ==
    /\ pc[r] = "master"
    /\ MayRun(r)
    /\ GetInstance("master", TRUE)
    /\ \E failed_at \in Range(MasterSteps) \cup {"none"} :
          LET audio_path == frame[r].synced_audio
              audio == IF Completed(MasterSteps, "read", failed_at)
                       THEN fs[audio_path] ELSE Absent
              path == MasterResult(audio_path, failed_at)
              writes == MasterWrites(failed_at)
          IN
          /\ fs' = [p \in Paths |->
                      IF p = FINAL_TRACK /\ p \in Range(writes)
                      THEN (IF Completed(MasterSteps, "write_audio", failed_at)
                            THEN audio ELSE Partial)
                      ELSE IF p = MASTERING_METADATA /\ p \in Range(writes)
                      THEN (IF Completed(MasterSteps, "dump_metadata", failed_at)
                            THEN audio ELSE Partial)
                      ELSE fs[p]]
          /\ frame' = [frame EXCEPT ![r].par_master = audio_path,
                                    ![r].audio = audio,
                                    ![r].writes = writes,
                                    ![r].master_failed_at = failed_at,
                                    ![r].ret_master = path,
                                    ![r].final_track = path,
                                    \* the frame of the sync_to_beat call is gone
                                    ![r].sync_failed_at = ""]
          /\ Return(r, "master")
    /\ UNCHANGED <<resp, tmp_files, call>>

\* -------------------------------------------------- generate_diss: the end
\* return {"status": "success", "lyrics": refined_lyrics, "audio_file": final_track};
\* resp keeps the status and the audio path, not the lyrics of the response;
\* audio_of is whose lyrics the file at that path holds at this moment
generate_diss_return(r) ==
    /\ pc[r] = "return"
    /\ MayRun(r)
    /\ resp' = [resp EXCEPT ![r] =
                   [status |-> "success", code |-> HTTP_OK, step |-> "", detail |-> <<>>,
                    audio_file |-> frame[r].final_track,
                    audio_of |-> fs[frame[r].final_track]]]
    /\ frame' = [frame EXCEPT ![r] = EmptyFrame]
    /\ pc' = [pc EXCEPT ![r] = "done"]
    /\ running' = 0
    /\ UNCHANGED <<st, fs, tmp_files, inst, built, call>>

\* the except blocks: an HTTPException is re-raised as it is, anything else
\* becomes HTTPException(500) with the step guessed from str(e)
generate_diss_except(r) ==
    /\ pc[r] = "except"
    /\ MayRun(r)
    /\ LET e == frame[r].exc IN
       resp' = [resp EXCEPT ![r] =
                   [status |-> "error",
                    code |-> IF e.http THEN e.status ELSE HTTP_ERROR,
                    step |-> IF e.http THEN "" ELSE ErrorStep(e.msg),
                    detail |-> e.msg,
                    audio_file |-> "", audio_of |-> Absent]]
    /\ frame' = [frame EXCEPT ![r] = EmptyFrame]
    /\ pc' = [pc EXCEPT ![r] = "failed"]
    /\ running' = 0
    /\ UNCHANGED <<st, fs, tmp_files, inst, built, call>>

\* ------------------------------------------------------- the whole system
Next ==
    \E r \in Req :
        \/ generate_diss(r)
        \/ scrape_reddit_done(r)
        \/ clean_text(r)
        \/ extract_themes(r)
        \/ generate_lyrics_call(r)
        \/ generate_lyrics_done(r)
        \/ refine_flow_call(r)
        \/ refine_flow_step(r)
        \/ refine_flow_resume(r)
        \/ text_to_speech_call(r)
        \/ text_to_speech_section(r)
        \/ text_to_speech_finish(r)
        \/ skip_sync(r)
        \/ sync_to_beat_call(r)
        \/ sync_to_beat_resume(r)
        \/ master_audio(r)
        \/ generate_diss_return(r)
        \/ generate_diss_except(r)

Spec == Init /\ [][Next]_vars

\* ================================================ the sanitizer on its own
\* tests/test_sanitizer.py: clean_text called directly on a record
MaxComments == 3

TestTitle ==
    <<"Test", SP, "[", "Post", "]", SP, "with", SP, "http://example.com", SP, "URLs">>
TestSelftext ==
    <<"Some", SP, "&amp;", SP, "special", SP, "characters", SP, "&lt;", SP, "here", SP, "&gt;">>
TestBodies ==
    <<<<"A", SP, "comment", SP, "with", SP, "[", "markdown", "]", "(", "http://test.com", ")">>,
      <<"A", SP, "downvoted", SP, "comment", "!", "!", "!", "!", "!", "!">>,
      <<"c">>>>
TestScores == {-5, 0, 3, 10}

\* the i-th comment of a record, with the given score
TestComment(i, score) ==
    [body |-> TestBodies[((i - 1) % Len(TestBodies)) + 1],
     author |-> <<"commenter", i>>,
     score |-> score]

\* the records clean_text is called on
TestData ==
    {[title |-> title, selftext |-> selftext,
      author |-> "test_user", subreddit |-> "test_sub",
      comments |-> [i \in DOMAIN scores |-> TestComment(i, scores[i])]] :
        title \in {<<>>, TestTitle}, selftext \in {<<>>, TestSelftext},
        scores \in UNION {[1..k -> TestScores] : k \in 0..MaxComments}}

InitSanitizer ==
    /\ NoRequests
    /\ call \in {[fn |-> "clean_text", args |-> content, result |-> <<>>, done |-> FALSE] :
                    content \in TestData}

\* result = await clean_text(test_data)
test_clean_text ==
    /\ call.fn = "clean_text"
    /\ ~call.done
    /\ call' = [call EXCEPT !.result = CleanText(call.args), !.done = TRUE]
    /\ UNCHANGED service

NextSanitizer == test_clean_text

SpecSanitizer == InitSanitizer /\ [][NextSanitizer]_vars

\* ========================================== the audio helpers on their own
\* ---------------------------------------------------------------- numbers
Abs(x) == IF x < 0 THEN -x ELSE x
Sign(x) == IF x < 0 THEN -1 ELSE IF x > 0 THEN 1 ELSE 0

\* np.max of a non-empty set of numbers
Max(S) == CHOOSE x \in S : \A y \in S : y <= x

\* A float is a fraction n/d with d >= 0; d = 0 is what IEEE division by zero
\* gives: inf (n > 0), -inf (n < 0), nan (n = 0).
Frac(n, d) == IF d < 0 THEN [n |-> -n, d |-> -d] ELSE [n |-> n, d |-> d]
One == Frac(1, 1)
IsFinite(q) == q.d > 0
IsNaN(q) == q.d = 0 /\ q.n = 0

\* numpy's x / y for two finite numbers: dividing by zero does not raise
Divide(x, y) == IF y = 0 THEN Frac(Sign(x), 0) ELSE Frac(x, y)

\* a < b on floats: false when either side is nan
Less(a, b) == a.n * b.d < b.n * a.d

\* float q times a finite number x: inf * 0 is nan
Times(q, x) == Frac(q.n * x, q.d)

AbsFrac(q) == Frac(Abs(q.n), q.d)

\* -------------------------------------------------------------- waveforms
\* A sample is an integer, full scale being 1000.  A one-dimensional waveform
\* is a sequence of samples; a waveform with channels is a sequence of those.
MaxSamples == 2
Amplitudes == {-1000, -400, 0, 400, 950}
Waveforms == UNION {[1..n -> Amplitudes] : n \in 0..MaxSamples}

\* the samples of all channels
SamplesOf(audio) == UNION {Range(audio[c]) : c \in DOMAIN audio}

\* ------------------------------------------- AudioMaster._apply_limiting
\* target_peak = 10 ** (self.target_peak / 20) with self.target_peak = -1.0:
\* 0.891 of full scale
TargetPeak == 891

\* LimiterGain without the min: the waveform is normalised to the target peak
LimiterGainUnclamped(peak) == Divide(TargetPeak, peak)

\* gain = min(target_peak / peak, 1.0); Python's min(a, b) is b when b < a, else a
LimiterGain(peak) ==
    LET ratio == Divide(TargetPeak, peak) IN
    IF Less(One, ratio) THEN One ELSE ratio

\* processed[mask] = np.sign(processed[mask]) * target_peak
\* with mask = np.abs(processed) > target_peak
Clip(q) ==
    IF Less(Frac(TargetPeak, 1), AbsFrac(q)) THEN Frac(Sign(q.n) * TargetPeak, 1) ELSE q

\* _apply_limiting(audio): np.max raises ValueError on an array without samples
ApplyLimiting(audio) ==
    IF SamplesOf(audio) = {} THEN [raises |-> TRUE, value |-> <<>>]
    ELSE LET peak == Max({Abs(x) : x \in SamplesOf(audio)})
             gain == LimiterGain(peak)
         IN [raises |-> FALSE,
             value |-> [c \in DOMAIN audio |->
                          [i \in DOMAIN audio[c] |-> Clip(Times(gain, audio[c][i]))]]]

\* ------------------------------------------- BeatSynchronizer._mix_audio
\* vocals_gain = 0.8 and the beat's 0.6, in tenths
VOCALS_GAIN == 8
BEAT_GAIN == 6

\* MixLength taking the shorter input
MixLengthShorter(vocals, beat) == IF Len(vocals) < Len(beat) THEN Len(vocals) ELSE Len(beat)

\* max_len = max(len(vocals), len(beat))
MixLength(vocals, beat) == IF Len(vocals) > Len(beat) THEN Len(vocals) ELSE Len(beat)

\* `if len(w) < max_len: w = np.pad(w, (0, max_len - len(w)))`
Pad(w, max_len) ==
    IF Len(w) < max_len THEN [i \in 1..max_len |-> IF i <= Len(w) THEN w[i] ELSE 0]
    ELSE w

\* MixPeak without the np.abs
MixPeakSigned(mixed) == Max(Range(mixed))

\* np.max(np.abs(mixed))
MixPeak(mixed) == Max({Abs(x) : x \in Range(mixed)})

\* _mix_audio(vocals, beat): adding arrays of different lengths raises, and so
\* does np.max on an empty array; the division by the peak does not
MixAudio(vocals, beat) ==
    LET max_len == MixLength(vocals, beat)
        v == Pad(vocals, max_len)
        b == Pad(beat, max_len)
    IN
    IF Len(v) # Len(b) \/ Len(v) = 0 THEN [raises |-> TRUE, value |-> <<>>]
    ELSE LET mixed == [i \in DOMAIN v |-> VOCALS_GAIN * v[i] + BEAT_GAIN * b[i]]
             peak == MixPeak(mixed)
         IN [raises |-> FALSE,
             value |-> [i \in DOMAIN mixed |-> Divide(mixed[i], peak)]]

\* --------------------------------------------------- AudioMaster._apply_eq
\* librosa's defaults: n_fft = 2048 samples a frame, hop_length = n_fft // 4
N_FFT == 2048
HOP_LENGTH == 512

\* sample rates: those of the pipeline's own files (22050 and 44100 Hz) and two
\* other common ones
SampleRates == {16000, 22050, 44100, 48000}

\* `bands` and `gains`, in the order of the dict; gains in hundredths
Bands(sr) ==
    << [band |-> "sub_bass", low |-> 20, high |-> 60, gain |-> 120],
       [band |-> "bass", low |-> 60, high |-> 250, gain |-> 110],
       [band |-> "low_mids", low |-> 250, high |-> 2000, gain |-> 90],
       [band |-> "high_mids", low |-> 2000, high |-> 6000, gain |-> 110],
       [band |-> "highs", low |-> 6000, high |-> sr \div 2, gain |-> 105] >>

\* librosa.fft_frequencies(sr=sr): bin k is at k * sr / n_fft Hz, k = 0 .. n_fft / 2
Bins == 0..(N_FFT \div 2)

\* mask = (freqs >= low) & (freqs <= high), at bin k
InBand(k, sr, b) == k * sr >= b.low * N_FFT /\ k * sr <= b.high * N_FFT

\* the gains bin k is multiplied by, in order: every band whose mask holds
\* the bin does `D[mask] *= gains[band]`
BinGains(k, sr) ==
    LET F[i \in 0..Len(Bands(sr))] ==
            IF i = 0 THEN <<>>
            ELSE IF InBand(k, sr, Bands(sr)[i]) THEN Append(F[i - 1], Bands(sr)[i].gain)
            ELSE F[i - 1]
    IN F[Len(Bands(sr))]

\* _apply_eq(audio, sr), as what it does to each bin of the spectrum
ApplyEq(sr) == [k \in Bins |-> BinGains(k, sr)]

\* ------------------------------- AudioMaster.master_audio on silent audio
\* A silent waveform keeps all its samples equal through the chain, so it is
\* held as its shape and the one value of its samples.
SilentLengths == {13230, 22050, 44100, 88200}
Silent(len) == [channels |-> 1, len |-> len, value |-> Frac(0, 1)]

\* ratio = 4.0
CompressionRatio == 4

\* CompressGain with `>=` for the `>` of the test
CompressGainInclusive(x, threshold) ==
    IF Abs(x) >= threshold
    THEN Divide((CompressionRatio - 1) * threshold + Abs(x), CompressionRatio * Abs(x))
    ELSE One

\* the gain of one sample before smoothing:
\* (threshold + (abs(x) - threshold) / ratio) / abs(x) above the threshold, else 1
CompressGain(x, threshold) ==
    IF Abs(x) > threshold
    THEN Divide((CompressionRatio - 1) * threshold + Abs(x), CompressionRatio * Abs(x))
    ELSE One

\* _apply_compression on silence: the RMS is zero, so threshold = 0; all gains
\* are equal, so the attack/release smoothing leaves them as they are
ApplyCompressionSilent(w) == [w EXCEPT !.value = Times(CompressGain(0, 0), 0)]

\* _apply_eq on a constant zero or nan waveform: the spectrum scaled by the
\* band gains holds the same value; istft returns hop_length * (len // hop_length)
\* samples
ApplyEqSilent(w) == [w EXCEPT !.len = HOP_LENGTH * (w.len \div HOP_LENGTH)]

\* _enhance_stereo: np.vstack((left, np.roll(right, delay_samples)))
EnhanceStereo(w) == [w EXCEPT !.channels = 2]

\* _apply_limiting on a constant waveform (of value 0 or nan): the peak of
\* nan samples is nan and so are the gain and the result
ApplyLimitingSilent(w) ==
    IF w.len = 0 THEN [raises |-> TRUE, value |-> w]
    ELSE [raises |-> FALSE,
          value |-> IF IsNaN(w.value) THEN w
                    ELSE [w EXCEPT !.value =
                              Clip(Times(LimiterGain(Abs(w.value.n)), w.value.n))]]

\* np.log10 at 0 is -inf and at nan is nan; it raises at neither
Log10(q) == IF IsNaN(q) THEN q ELSE Frac(-1, 0)

\* _calculate_audio_metrics(processed, sr): len(audio) is the first dimension
\* of the (2, samples) array
CalculateAudioMetrics(w, sr) ==
    [peak_db |-> Log10(AbsFrac(w.value)), rms_db |-> Log10(AbsFrac(w.value)),
     duration |-> Frac(w.channels, sr), sample_rate |-> sr]

\* master_audio on a silent file of `len` samples at rate sr
MasterSilent(len, sr) ==
    LET limited == ApplyLimitingSilent(EnhanceStereo(ApplyEqSilent(
                       ApplyCompressionSilent(Silent(len)))))
        failed_at == IF limited.raises THEN "limiting" ELSE "none"
    IN [failed_at |-> failed_at,
        path |-> MasterResult(SYNCED_TRACK, failed_at),
        mastered |-> limited.value,
        metadata |-> IF failed_at = "none" THEN CalculateAudioMetrics(limited.value, sr)
                     ELSE <<>>]

\* ---------------------------------------- BeatSynchronizer._align_to_grid
\* Times are in ticks, TicksPerSample of them to one sample period, so that two
\* times can differ by a fraction of a sample.
TicksPerSample == 2

\* beat_times[np.argmin(np.abs(beat_times - onset_time))]: the first of the
\* nearest beats
NearestBeat(beat_times, onset_time) ==
    LET dist(i) == Abs(beat_times[i] - onset_time)
        first == CHOOSE i \in DOMAIN beat_times :
                     /\ \A j \in DOMAIN beat_times : dist(i) <= dist(j)
                     /\ \A j \in 1..(i - 1) : dist(j) > dist(i)
    IN beat_times[first]

\* int(time_diff * sr) for time_diff >= 0
ShiftSamples(time_diff) == time_diff \div TicksPerSample

\* One turn of the loop.  With shift_samples = 0 the slice [:-0] is the empty
\* slice [:0]: assigning an empty array to all of out_audio raises unless
\* out_audio is empty, and assigning audio to an empty slice raises unless audio
\* has at most one sample (a single sample broadcasts to no samples).
ShiftSegment(out_audio, audio, time_diff) ==
    LET n == Len(audio) IN
    IF time_diff > 0
    THEN LET shift_samples == ShiftSamples(time_diff) IN
         IF shift_samples = 0
         THEN [raises |-> n # 0, value |-> out_audio]
         ELSE [raises |-> FALSE,
               value |-> [i \in 1..n |-> IF i > shift_samples THEN audio[i - shift_samples]
                                          ELSE out_audio[i]]]
    ELSE LET shift_samples == ShiftSamples(-time_diff) IN
         IF shift_samples = 0
         THEN [raises |-> n > 1, value |-> out_audio]
         ELSE [raises |-> FALSE,
               value |-> [i \in 1..n |-> IF i <= n - shift_samples THEN audio[i + shift_samples]
                                          ELSE out_audio[i]]]

\* _align_to_grid(audio, sr, beat_times), the onsets librosa detects in audio
\* being given: out_audio starts as zeros and every onset writes into it from
\* audio; np.argmin raises on an empty beat_times
AlignToGrid(audio, onset_times, beat_times) ==
    LET F[k \in 0..Len(onset_times)] ==
            IF k = 0 THEN [raises |-> FALSE, value |-> [i \in 1..Len(audio) |-> 0]]
            ELSE IF F[k - 1].raises THEN F[k - 1]
            ELSE IF beat_times = <<>> THEN [raises |-> TRUE, value |-> F[k - 1].value]
            ELSE ShiftSegment(F[k - 1].value, audio,
                              NearestBeat(beat_times, onset_times[k]) - onset_times[k])
    IN F[Len(onset_times)]

\* increasing sequences of at most two times before tick `end`
TimesBefore(end) ==
    {t \in UNION {[1..k -> 0..(end - 1)] : k \in 0..2} :
        \A i \in DOMAIN t : \A j \in DOMAIN t : i < j => t[i] < t[j]}

\* ------------------------------------------------------------- the calls
MixCalls ==
    {[fn |-> "_mix_audio", args |-> <<vocals, beat>>, result |-> <<>>, done |-> FALSE] :
        vocals \in Waveforms, beat \in Waveforms}

\* mono (one channel) and two-channel waveforms
LimitingCalls ==
    {[fn |-> "_apply_limiting", args |-> audio, result |-> <<>>, done |-> FALSE] :
        audio \in {<<w>> : w \in Waveforms}
                  \cup {<<l, r>> : l \in Waveforms, r \in Waveforms} }

EqCalls ==
    {[fn |-> "_apply_eq", args |-> sr, result |-> <<>>, done |-> FALSE] : sr \in SampleRates}

\* the rates of the files the pipeline hands to the master: TTS output and beats
MasterCalls ==
    {[fn |-> "master_audio", args |-> <<len, sr>>, result |-> <<>>, done |-> FALSE] :
        len \in SilentLengths, sr \in {22050, 44100}}

\* the onsets lie within the audio; the beats come from the beat track
AlignCalls ==
    {[fn |-> "_align_to_grid", args |-> <<audio, onset_times, beat_times>>,
      result |-> <<>>, done |-> FALSE] :
        audio \in UNION {[1..n -> {-400, 0, 950}] : n \in 0..MaxSamples},
        onset_times \in TimesBefore(TicksPerSample * MaxSamples),
        beat_times \in TimesBefore(TicksPerSample * MaxSamples + 1)}

InitAudio ==
    /\ NoRequests
    /\ call \in MixCalls \cup LimitingCalls \cup EqCalls \cup MasterCalls \cup AlignCalls
    /\ call.fn = "_align_to_grid" =>
          \A i \in DOMAIN call.args[2] : call.args[2][i] < TicksPerSample * Len(call.args[1])

mix_audio ==
    /\ call.fn = "_mix_audio"
    /\ ~call.done
    /\ call' = [call EXCEPT !.result = MixAudio(call.args[1], call.args[2]), !.done = TRUE]
    /\ UNCHANGED service

apply_limiting ==
    /\ call.fn = "_apply_limiting"
    /\ ~call.done
    /\ call' = [call EXCEPT !.result = ApplyLimiting(call.args), !.done = TRUE]
    /\ UNCHANGED service

apply_eq ==
    /\ call.fn = "_apply_eq"
    /\ ~call.done
    /\ call' = [call EXCEPT !.result = ApplyEq(call.args), !.done = TRUE]
    /\ UNCHANGED service

master_silent ==
    /\ call.fn = "master_audio"
    /\ ~call.done
    /\ call' = [call EXCEPT !.result = MasterSilent(call.args[1], call.args[2]), !.done = TRUE]
    /\ UNCHANGED service

align_to_grid ==
    /\ call.fn = "_align_to_grid"
    /\ ~call.done
    /\ call' = [call EXCEPT !.result = AlignToGrid(call.args[1], call.args[2], call.args[3]),
                            !.done = TRUE]
    /\ UNCHANGED service

NextAudio == mix_audio \/ apply_limiting \/ apply_eq \/ master_silent \/ align_to_grid
SpecAudio == InitAudio /\ [][NextAudio]_vars

\* ================================================================ claims
\* a request whose generate_diss frame exists
Live(r) == pc[r] \notin {"idle", "done", "failed"}

StageIndex(s) == CHOOSE i \in DOMAIN Stages : Stages[i] = s

NoBeatSource(r) == frame[r].beat_url \in {NoneValue, ""}

\* C1: the stages of a request start in the fixed order scrape, clean, themes,
\* lyrics, refine, tts, (sync), master; a stage has started only if every
\* earlier stage has returned (sync may have been passed over when there is no
\* beat source); at most one stage of a request is in progress; after a stage
\* raised no later stage has started; and each stage received what the stage
\* before it returned.
C1_StagesRunInOrder ==
    \A r \in Req :
        /\ \A k \in DOMAIN Stages :
              st[r][Stages[k]] # "pending" =>
                 \A j \in 1..(k - 1) :
                    \/ st[r][Stages[j]] = "returned"
                    \/ /\ Stages[j] = "sync"
                       /\ st[r]["sync"] = "pending"
                       /\ Live(r) => NoBeatSource(r)
        /\ Cardinality({s \in StageSet : st[r][s] = "running"}) <= 1
        /\ \A j \in DOMAIN Stages :
              st[r][Stages[j]] = "raised" =>
                 \A k \in (j + 1)..Len(Stages) : st[r][Stages[k]] = "pending"
        /\ Live(r) =>
              /\ st[r]["clean"] # "pending" => frame[r].par_clean = frame[r].content
              /\ st[r]["themes"] # "pending" => frame[r].par_themes = frame[r].cleaned_text
              /\ st[r]["lyrics"] # "pending" => frame[r].par_lyrics = frame[r].themes
              /\ st[r]["refine"] # "pending" => frame[r].par_refine = frame[r].lyrics
              /\ st[r]["tts"] # "pending" => frame[r].par_tts = frame[r].refined_lyrics
              /\ st[r]["sync"] # "pending" =>
                    /\ frame[r].par_sync = frame[r].speech_file
                    /\ frame[r].speech_file = frame[r].ret_tts
              /\ st[r]["master"] # "pending" =>
                    frame[r].par_master = frame[r].synced_audio
              /\ st[r]["clean"] = "returned" =>
                    frame[r].cleaned_text = CleanText(frame[r].content)
              /\ st[r]["scrape"] = "returned" => frame[r].content \in Posts

\* a request went through all eight stages
C1_Witness ==
    \E r \in Req :
        /\ pc[r] = "return"
        /\ \A s \in StageSet : st[r][s] = "returned"

\* C2: without a beat source (beat_url None or "") sync_to_beat is never
\* invoked and master_audio receives the path text_to_speech returned; with a
\* beat source master_audio receives the path sync_to_beat returned, which is
\* the synced track when the sync succeeded and the vocals path when it failed.
C2_BeatSyncIsOptional ==
    \A r \in Req :
        Live(r) =>
           /\ NoBeatSource(r) => st[r]["sync"] = "pending"
           /\ st[r]["master"] # "pending" =>
                 IF NoBeatSource(r)
                 THEN frame[r].par_master = frame[r].ret_tts
                 ELSE /\ st[r]["sync"] = "returned"
                      /\ frame[r].par_master = frame[r].ret_sync
           /\ (pc[r] = "master" /\ ~NoBeatSource(r)) =>
                 frame[r].ret_sync =
                    IF frame[r].sync_failed_at = "none" THEN SYNCED_TRACK
                    ELSE frame[r].ret_tts

\* master_audio ran for a request whose beat_url is the empty string
C2_Witness ==
    \E r \in Req :
        /\ pc[r] = "return"
        /\ frame[r].beat_url = ""
        /\ frame[r].par_master = RAW_VOCALS

\* C3: sync_to_beat never raises; when a sub-step failed (loading the vocals,
\* a download status other than 200, decoding, tempo, stretch, alignment, mix,
\* writing the track or the metadata) it returns its vocals_path argument, and
\* it returns the synced-track path only when every sub-step succeeded.
C3_SyncNeverRaises ==
    \A r \in Req :
        /\ st[r]["sync"] # "raised"
        /\ (pc[r] = "master" /\ st[r]["sync"] = "returned") =>
              /\ frame[r].sync_failed_at # "none" =>
                    frame[r].ret_sync = frame[r].par_sync
              /\ frame[r].ret_sync = SYNCED_TRACK <=> frame[r].sync_failed_at = "none"

\* the download answered with a status other than 200 and the vocals path came back
C3_Witness ==
    \E r \in Req :
        /\ pc[r] = "master"
        /\ frame[r].sync_failed_at = "download"
        /\ frame[r].ret_sync = RAW_VOCALS

\* C4: master_audio never raises; when reading the input, a processing stage,
\* writing the output or computing or writing the metadata failed it returns
\* its audio_path argument, and it returns the mastered-track path only when
\* all of them succeeded.
C4_MasterNeverRaises ==
    \A r \in Req :
        /\ st[r]["master"] # "raised"
        /\ (pc[r] = "return" /\ st[r]["master"] = "returned") =>
              /\ frame[r].master_failed_at # "none" =>
                    frame[r].ret_master = frame[r].par_master
              /\ frame[r].ret_master = FINAL_TRACK <=> frame[r].master_failed_at = "none"

\* writing the metadata failed and the input path came back
C4_Witness ==
    \E r \in Req :
        /\ pc[r] = "return"
        /\ frame[r].master_failed_at = "dump_metadata"
        /\ frame[r].ret_master = frame[r].par_master

\* C5: a master_audio call that returns its input path has written neither the
\* mastered audio file nor the mastering metadata file; a call that returns the
\* mastered path wrote the audio file first and the metadata file after it.
C5_MasterWritesOnlyOnSuccess ==
    \A r \in Req :
        (pc[r] = "return" /\ st[r]["master"] = "returned") =>
           IF frame[r].ret_master = FINAL_TRACK
           THEN frame[r].writes = <<FINAL_TRACK, MASTERING_METADATA>>
           ELSE frame[r].writes = <<>>

\* C6: when the language-model call of the lyrics generator fails and nothing
\* else goes wrong, generate_lyrics returns the four sections with empty text
\* and generate_diss goes on through refine, text-to-speech and mastering to a
\* success response: no stage raises.
C6_EmptyLyricsStillSucceed ==
    \A r \in Req :
        (Live(r) /\ frame[r].faults = {"lyrics_model"}) =>
           /\ st[r]["lyrics"] = "returned" =>
                 /\ Len(frame[r].lyrics) = Len(SectionKeys)
                 /\ \A i \in DOMAIN frame[r].lyrics :
                       /\ frame[r].lyrics[i].section = SectionKeys[i]
                       /\ frame[r].lyrics[i].content = <<>>
           /\ pc[r] # "except"

\* C7: when the classifier cannot be loaded or its call fails and nothing else
\* goes wrong, extract_themes returns normally and generate_diss goes on to the
\* lyrics generator.
C7_ClassifierFailureIsCaught ==
    \A r \in Req :
        (Live(r) /\ frame[r].faults = {"classifier"}) =>
           /\ st[r]["themes"] # "raised"
           /\ pc[r] # "except"

\* C8: refine_flow returns the section keys of its input in the same order;
\* a section whose model call failed comes back unchanged; an empty section
\* stays empty and the model is not asked about it; every non-empty section is
\* sent to the model whether or not an earlier one failed.
C8_RefineKeepsStructure ==
    \A r \in Req :
        (pc[r] = "tts" /\ st[r]["refine"] = "returned") =>
           LET input == frame[r].par_refine
               output == frame[r].refined_lyrics
           IN
           /\ Len(output) = Len(input)
           /\ \A i \in DOMAIN input :
                 /\ output[i].section = input[i].section
                 /\ input[i].section \in frame[r].failed =>
                       output[i].content = input[i].content
                 /\ input[i].content = <<>> =>
                       /\ output[i].content = <<>>
                       /\ input[i].section \notin frame[r].asked
                 /\ input[i].content # <<>> => input[i].section \in frame[r].asked

\* the first section's call failed, the second section was refined all the
\* same, and the empty sections were passed over
C8_Witness ==
    \E r \in Req :
        /\ pc[r] = "tts"
        /\ st[r]["refine"] = "returned"
        /\ frame[r].failed = {"verse1"}
        /\ frame[r].asked = {"verse1", "chorus"}
        /\ frame[r].refined_lyrics[1].content = frame[r].par_refine[1].content
        /\ frame[r].refined_lyrics[1].content # <<>>
        /\ frame[r].refined_lyrics[2].content # frame[r].par_refine[2].content
        /\ frame[r].refined_lyrics[3].content = <<>>

\* C9: when text_to_speech has returned or raised, every temporary file it
\* created has been deleted.
C9_NoTemporaryFileLeft ==
    \A r \in Req :
        (Live(r) /\ st[r]["tts"] \in {"returned", "raised"}) =>
           frame[r].tmp_live = {}

\* C10: runs are not isolated.  A request's mastering stage reads audio made
\* from another request's lyrics in one way: its sync_to_beat awaited the
\* download, another request overwrote data/audio/raw_vocals.wav meanwhile,
\* and the sync fell back to that path.  The audio file the request then
\* returns is not derived from its own lyrics.
C10_RunsOverwriteEachOther ==
    \A r \in Req :
        /\ (pc[r] = "return" /\ frame[r].audio \in Req \ {r}) =>
              /\ frame[r].par_master = RAW_VOCALS
              /\ st[r]["sync"] = "returned"
              /\ frame[r].ret_sync = RAW_VOCALS
              /\ fs[frame[r].final_track] = frame[r].audio
        /\ (pc[r] = "return" /\ frame[r].audio = r) =>
              fs[frame[r].final_track] = r
        /\ resp[r].status = "success" => resp[r].audio_of \in Req

\* a request answered with audio made from the other request's lyrics
C10_Witness ==
    \E r \in Req :
        /\ resp[r].status = "success"
        /\ resp[r].audio_of \in Req \ {r}

\* request r stopped at the credentials check of RedditScraper.__init__
EnvMissing(r) == MsgMissingEnv \in {frame[r].exc.msg, resp[r].detail}

\* C11: the six stage modules with a module-level slot (themes, lyrics, refine,
\* tts, sync, master) hold a lazy singleton: the slot is empty until the first
\* call that constructs successfully, the class is constructed at most once
\* however the requests interleave, and a constructor that raised left the
\* slot empty.  The scraper is no singleton: every request that gets past the
\* credentials check has built a RedditScraper of its own.
C11_SixLazySingletons ==
    /\ \A m \in Singletons :
          /\ built[m] <= 1
          /\ inst[m] <=> built[m] = 1
    /\ built["scrape"] = Cardinality({r \in Req : pc[r] # "idle" /\ ~EnvMissing(r)})

\* one request failed in the TTSEngine constructor, a later one built the
\* engine and succeeded, and each of them built a scraper
C11_Witness ==
    \E r1 \in Req, r2 \in Req :
        /\ resp[r1].detail = MsgTtsInit
        /\ resp[r2].status = "success"
        /\ inst["tts"]
        /\ built["tts"] = 1
        /\ built["scrape"] = 2

\* C11 as stated: every stage's class, the scraper's included, is constructed
\* at most once per process.
C11_EveryStageBuiltOnce == \A m \in Classes : built[m] <= 1

\* the keyword tests of the except block, in the order the claim gives
StepTests ==
    <<[step |-> "reddit_scraping", keywords |-> {"asyncpraw", "reddit"}],
      [step |-> "text_cleaning", keywords |-> {"sanitizer"}],
      [step |-> "theme_extraction", keywords |-> {"theme"}],
      [step |-> "lyrics_generation", keywords |-> {"lyrics"}],
      [step |-> "flow_refinement", keywords |-> {"flow"}],
      [step |-> "text_to_speech", keywords |-> {"speech", "tts"}],
      [step |-> "beat_syncing", keywords |-> {"beat", "sync"}],
      [step |-> "audio_mastering", keywords |-> {"master", "audio"}]>>

\* the error text passes test i
Passes(msg, i) == \E kw \in StepTests[i].keywords : Mentions(msg, kw)

\* the step of the first test the text passes
FirstMatch(msg) ==
    IF \E i \in DOMAIN StepTests : Passes(msg, i)
    THEN StepTests[CHOOSE i \in DOMAIN StepTests :
                      /\ Passes(msg, i)
                      /\ \A j \in 1..(i - 1) : ~Passes(msg, j)].step
    ELSE "unknown"

\* C12: an HTTPException raised by a stage reaches the caller with its status
\* code and detail; any other exception becomes an HTTP 500 whose detail has
\* the error text and the step of the first keyword test, in the order
\* reddit_scraping .. audio_mastering, that the text passes, "unknown" if none.
C12_FailureReporting ==
    [][\A r \in Req :
          (pc[r] = "except" /\ pc'[r] = "failed") =>
             LET e == frame[r].exc IN
             /\ resp'[r].status = "error"
             /\ resp'[r].detail = e.msg
             /\ IF e.http
                THEN resp'[r].code = e.status
                ELSE /\ resp'[r].code = HTTP_ERROR
                     /\ resp'[r].step = FirstMatch(e.msg)]_vars

\* saving the themes of author mc_beat failed: the text passes the theme test
\* and the beat test, and the step reported is the earlier one
C12_Witness ==
    \E r \in Req :
        /\ resp[r].detail = MsgThemesSave
        /\ resp[r].code = HTTP_ERROR
        /\ resp[r].step = "theme_extraction"
        /\ Passes(resp[r].detail, 3)
        /\ Passes(resp[r].detail, 7)

\* the input comments that clean_text has to keep
Upvoted(comments) == {i \in DOMAIN comments : comments[i].score > 0}

\* C13: clean_text keeps exactly the comments with score > 0, each once with
\* its author and score, the text cleaned, ordered by score non-increasing;
\* author and subreddit are copied; no input comments give no comments.
C13_KeepsUpvotedSorted ==
    (call.fn = "clean_text" /\ call.done) =>
       LET input == call.args
           output == call.result
       IN
       /\ output.author = input.author
       /\ output.subreddit = input.subreddit
       /\ Len(output.comments) = Cardinality(Upvoted(input.comments))
       /\ \A i \in Upvoted(input.comments) :
             \E j \in DOMAIN output.comments :
                /\ output.comments[j].author = input.comments[i].author
                /\ output.comments[j].score = input.comments[i].score
                /\ output.comments[j].text = CleanString(input.comments[i].body)
       /\ \A j \in DOMAIN output.comments : output.comments[j].score > 0
       /\ \A j \in 1..(Len(output.comments) - 1) :
             output.comments[j].score >= output.comments[j + 1].score
       /\ input.comments = <<>> => output.comments = <<>>

\* scores 3, -5, 10 came back as the comments with scores 10 and 3
C13_Witness ==
    /\ call.fn = "clean_text"
    /\ call.done
    /\ [i \in DOMAIN call.args.comments |-> call.args.comments[i].score] = <<3, -5, 10>>
    /\ [j \in DOMAIN call.result.comments |-> call.result.comments[j].score] = <<10, 3>>

\* C14: the title "Test [Post] with http://example.com URLs" cleans to
\* "test post with urls", and the cleaned text of the comment
\* "A comment with [markdown](http://test.com)" still has the word markdown.
C14_BracketedWordsKept ==
    (call.fn = "clean_text" /\ call.done) =>
       /\ call.args.title = TestTitle =>
             call.result.title = <<"test", SP, "post", SP, "with", SP, "urls">>
       /\ \A j \in DOMAIN call.result.comments :
             call.result.comments[j].author = <<"commenter", 1>> =>
                "markdown" \in Range(call.result.comments[j].text)

\* np.max(np.abs(audio)) of a waveform with samples
PeakOf(audio) == Max({Abs(x) : x \in SamplesOf(audio)})

\* C15: for every non-silent mono or two-channel waveform, _apply_limiting
\* returns samples of magnitude at most the target peak; a waveform whose peak
\* is at or below the target comes back with its samples unchanged, and a louder
\* one is scaled by target_peak / peak: the gain is min(target_peak / peak, 1).
C15_LimiterNeverAmplifies ==
    (call.fn = "_apply_limiting" /\ call.done /\ SamplesOf(call.args) # {0}
        /\ SamplesOf(call.args) # {}) =>
        /\ ~call.result.raises
        /\ DOMAIN call.result.value = DOMAIN call.args
        /\ \A c \in DOMAIN call.args :
              /\ DOMAIN call.result.value[c] = DOMAIN call.args[c]
              /\ \A i \in DOMAIN call.args[c] :
                    LET x == call.args[c][i]
                        y == call.result.value[c][i]
                        peak == PeakOf(call.args)
                    IN /\ IsFinite(y)
                       /\ Abs(y.n) <= TargetPeak * y.d
                       /\ peak <= TargetPeak => y.n = x * y.d
                       /\ peak > TargetPeak => y.n * peak = x * TargetPeak * y.d

\* a two-channel waveform louder than the target has been limited, and its
\* loudest sample now sits at the target peak
C15_Witness ==
    /\ call.fn = "_apply_limiting"
    /\ call.done
    /\ Len(call.args) = 2
    /\ SamplesOf(call.args) # {}
    /\ PeakOf(call.args) > TargetPeak
    /\ ~call.result.raises
    /\ \E c \in DOMAIN call.args : \E i \in DOMAIN call.args[c] :
          LET y == call.result.value[c][i]
          IN IsFinite(y) /\ Abs(y.n) = TargetPeak * y.d /\ Abs(call.args[c][i]) > TargetPeak

\* C16: mixing silent vocals with a silent beat (at least one sample between
\* them) returns without raising the all-zero waveform of the padded length:
\* every sample is a finite zero, none is nan or infinite.
C16_SilentMixIsZero ==
    (call.fn = "_mix_audio" /\ call.done
        /\ Range(call.args[1]) \subseteq {0} /\ Range(call.args[2]) \subseteq {0}
        /\ Len(call.args[1]) + Len(call.args[2]) > 0) =>
        /\ ~call.result.raises
        /\ Len(call.result.value) = Max({Len(call.args[1]), Len(call.args[2])})
        /\ \A i \in DOMAIN call.result.value :
              IsFinite(call.result.value[i]) /\ call.result.value[i].n = 0

\* sample i of waveform w, zero beyond its length
At(w, i) == IF i \in DOMAIN w THEN w[i] ELSE 0

\* the gain-scaled sum of the two inputs at sample i, the shorter one read as
\* zeros beyond its length
ScaledSum(vocals, beat, i) == VOCALS_GAIN * At(vocals, i) + BEAT_GAIN * At(beat, i)

Longer(vocals, beat) == Max({Len(vocals), Len(beat)})

\* the peak of the gain-scaled sum over the longer length
SumPeak(vocals, beat) ==
    Max({0} \cup {Abs(ScaledSum(vocals, beat, i)) : i \in 1..Longer(vocals, beat)})

\* the call returned a waveform as long as the longer input, each sample the
\* gain-scaled sum of both inputs over the peak
MixedInFull(vocals, beat, result) ==
    /\ ~result.raises
    /\ Len(result.value) = Longer(vocals, beat)
    /\ SumPeak(vocals, beat) > 0 =>
          \A i \in 1..Longer(vocals, beat) :
              /\ IsFinite(result.value[i])
              /\ result.value[i].n * SumPeak(vocals, beat)
                    = ScaledSum(vocals, beat, i) * result.value[i].d

\* C17: for two waveforms of any lengths that are not both empty, _mix_audio
\* returns a waveform exactly as long as the longer one; the shorter one counts
\* as zeros beyond its length and neither is cut.
C17_MixKeepsLongerLength ==
    (call.fn = "_mix_audio" /\ call.done /\ Len(call.args[1]) + Len(call.args[2]) > 0) =>
        MixedInFull(call.args[1], call.args[2], call.result)

\* vocals shorter than the beat: the tail of the result is the beat alone
C17_Witness ==
    /\ call.fn = "_mix_audio"
    /\ call.done
    /\ Len(call.args[1]) < Len(call.args[2])
    /\ Len(call.args[1]) > 0
    /\ ~call.result.raises
    /\ Len(call.result.value) = Len(call.args[2])
    /\ LET last == Len(call.args[2])
       IN /\ call.args[2][last] # 0
          /\ IsFinite(call.result.value[last])
          /\ call.result.value[last].n * SumPeak(call.args[1], call.args[2])
                = BEAT_GAIN * call.args[2][last] * call.result.value[last].d

\* C17 as stated, for any two waveforms of any lengths: _mix_audio succeeds and
\* returns a waveform as long as the longer input, the shorter one zero-padded.
C17_MixAnyLengths ==
    (call.fn = "_mix_audio" /\ call.done) =>
        MixedInFull(call.args[1], call.args[2], call.result)

\* C18: when the gain-scaled sum 0.8 * vocals + 0.6 * beat is not silent, every
\* sample _mix_audio returns has magnitude at most 1 and at least one has
\* magnitude exactly 1; mixing a waveform with itself is one such case.
C18_MixPeakNormalised ==
    (call.fn = "_mix_audio" /\ call.done /\ SumPeak(call.args[1], call.args[2]) > 0) =>
        /\ ~call.result.raises
        /\ \A i \in DOMAIN call.result.value :
              /\ IsFinite(call.result.value[i])
              /\ Abs(call.result.value[i].n) <= call.result.value[i].d
        /\ \E i \in DOMAIN call.result.value :
              Abs(call.result.value[i].n) = call.result.value[i].d

\* a waveform mixed with itself: its loudest sample, a negative one, comes out
\* at -1 and a quieter one below magnitude 1
C18_Witness ==
    /\ call.fn = "_mix_audio"
    /\ call.done
    /\ call.args[1] = call.args[2]
    /\ ~call.result.raises
    /\ \E i, j \in DOMAIN call.result.value :
          /\ call.args[1][i] < 0
          /\ call.result.value[i].n = -call.result.value[i].d
          /\ IsFinite(call.result.value[i])
          /\ call.result.value[j].n > 0
          /\ call.result.value[j].n < call.result.value[j].d

C20_OneGainPerBin ==
    (call.fn = "_apply_eq" /\ call.done) =>
        \A k \in Bins :
            /\ Len(call.result[k]) <= 1
            /\ k * call.args < 20 * N_FFT => call.result[k] = <<>>

\* n / d = m / e for positive d and e, compared by whole part and remainder
SameRatio(n, d, m, e) ==
    /\ n \div d = m \div e
    /\ (n % d) * e = (m % e) * d

\* C21: the duration in the mastering metadata is the length of the mastered
\* waveform in seconds, its samples per channel over the sample rate, and the
\* sample rate recorded is the rate the file was written with.
C21_MetadataDuration ==
    (call.fn = "master_audio" /\ call.done /\ call.result.failed_at = "none") =>
        /\ call.result.metadata.sample_rate = call.args[2]
        /\ IsFinite(call.result.metadata.duration)
        /\ SameRatio(call.result.metadata.duration.n, call.result.metadata.duration.d,
                     call.result.mastered.len, call.args[2])

\* C22: _align_to_grid returns a waveform as long as its input, and when no
\* onset is detected it returns the input waveform itself, not silence.
C22_AlignKeepsVocals ==
    (call.fn = "_align_to_grid" /\ call.done) =>
        /\ ~call.result.raises => Len(call.result.value) = Len(call.args[1])
        /\ call.args[2] = <<>> => ~call.result.raises /\ call.result.value = call.args[1]

\* some onset is less than one sample away from its nearest beat
OnsetOnGrid(onset_times, beat_times) ==
    /\ beat_times # <<>>
    /\ \E k \in DOMAIN onset_times :
          Abs(NearestBeat(beat_times, onset_times[k]) - onset_times[k]) < TicksPerSample

\* C23: when the offset between an onset and its nearest beat truncates to zero
\* samples, on either side, _align_to_grid does not raise, so sync_to_beat
\* returns the synced track and not the raw vocals.
C23_ZeroShiftHandled ==
    (call.fn = "_align_to_grid" /\ call.done /\ OnsetOnGrid(call.args[2], call.args[3])) =>
        /\ ~call.result.raises
        /\ SyncResult(RAW_VOCALS, IF call.result.raises THEN "align_to_grid" ELSE "none")
              = SYNCED_TRACK

\* C24: the temporary file holding the downloaded beat does not outlive the
\* sync_to_beat call that created it: when the call returns after the download,
\* by either exit, there are no more temporary files on disk than when the
\* response arrived.
C24_BeatFileDeleted ==
    [][\A r \in Req :
          (pc[r] = "sync_wait" /\ pc'[r] # "sync_wait") => tmp_files' = tmp_files]_vars

\* C25: a request that failed because its text-to-speech stage raised, in the
\* TTSEngine constructor or in text_to_speech, is answered with step
\* "text_to_speech" and with the step of no other stage.
C25_TtsFailureStep ==
    \A r \in Req :
        (pc[r] = "failed" /\ st[r]["tts"] = "raised" /\ resp[r].code = HTTP_ERROR) =>
            resp[r].step = "text_to_speech"
====
